---- MODULE Spec2Model ----
(***************************************************************************)
(* geomengine: 2D geometry primitives.                                     *)
(*                                                                         *)
(* The library is a set of pure functions over Point2D<T> / Line2D<T>,     *)
(* T: Float.  The state machine below is a caller: each action calls one   *)
(* function on arguments drawn from bounded sets and records the           *)
(* arguments and the returned value.                                       *)
(*                                                                         *)
(* Scalars.  convex_hull_2d and bounding_box_2d are modelled on integer    *)
(* coordinates: on |v| < 2^24 every +, -, * of the cross product is exact  *)
(* in f32 and in f64, so Int arithmetic is the float arithmetic there.     *)
(* centroid_2d and Line2D::subdivide divide, so they are modelled on       *)
(* T = f32 with IEEE-754 round-to-nearest-even (the f32 operators).      *)
(***************************************************************************)
EXTENDS Integers, Sequences, FiniteSets

VARIABLES op, points, hull, bbox, centroid, line, num_segments, subdivisions,
          l1, l2, intersection

vars == <<op, points, hull, bbox, centroid, line, num_segments, subdivisions,
          l1, l2, intersection>>

\* ---- bounds of the model ------------------------------------------------
MaxCoord == 1
MaxPts   == 4

Coords == -1..MaxCoord

\* Point2D { x, y }
Point2D(x, y) == [x |-> x, y |-> y]

Points == {Point2D(x, y) : x \in Coords, y \in Coords}

RECURSIVE SeqsUpTo(_, _)
SeqsUpTo(S, n) ==
    IF n = 0 THEN {<<>>}
    ELSE LET shorter == SeqsUpTo(S, n - 1)
         IN  shorter \cup {Append(s, e) : s \in {t \in shorter : Len(t) = n - 1}, e \in S}

PointSeqs == SeqsUpTo(Points, MaxPts)

\* Option<..>
None == [some |-> FALSE]
Some(v) == [some |-> TRUE, value |-> v]

\* ---- convex_hull_2d -----------------------------------------------------

compare_x_only(a, b) ==
    IF a.x < b.x THEN "Less"
    ELSE IF a.x > b.x THEN "Greater"
    ELSE "Equal"

\* a.x.partial_cmp(&b.x).unwrap_or(Equal).then(a.y.partial_cmp(&b.y).unwrap_or(Equal))
compare(a, b) ==
    IF a.x < b.x THEN "Less"
    ELSE IF a.x > b.x THEN "Greater"
    ELSE IF a.y < b.y THEN "Less"
    ELSE IF a.y > b.y THEN "Greater"
    ELSE "Equal"

\* insert p into the sorted sequence s after every element that is not Greater
RECURSIVE insert_sorted(_, _)
insert_sorted(s, p) ==
    IF s = <<>> THEN <<p>>
    ELSE IF compare(p, s[Len(s)]) = "Less"
         THEN Append(insert_sorted(SubSeq(s, 1, Len(s) - 1), p), s[Len(s)])
         ELSE Append(s, p)

sort_by_nothing(s) == s

\* points.sort_by(..): a stable sort
RECURSIVE sort_by(_)
sort_by(s) ==
    IF s = <<>> THEN <<>>
    ELSE insert_sorted(sort_by(SubSeq(s, 1, Len(s) - 1)), s[Len(s)])

\* the closure cross_product(o, a, b)
cross_product(o, a, b) ==
    (a.x - o.x) * (b.y - o.y) - (a.y - o.y) * (b.x - o.x)

pop(s) == SubSeq(s, 1, Len(s) - 1)

rev(s) == [i \in 1..Len(s) |-> s[Len(s) + 1 - i]]

\* the condition of the while loop: at least two on the stack and no left turn
pop_turn_strict(stack, p) ==
    /\ Len(stack) >= 2
    /\ cross_product(stack[Len(stack) - 1], stack[Len(stack)], p) < 0

pop_turn(stack, p) ==
    /\ Len(stack) >= 2
    /\ cross_product(stack[Len(stack) - 1], stack[Len(stack)], p) <= 0

push_point_if(stack, p) ==
    IF pop_turn(stack, p) THEN Append(pop(stack), p)
    ELSE Append(stack, p)

\* one iteration of the for loop: while pop_turn { pop } ; push(p)
RECURSIVE push_point(_, _)
push_point(stack, p) ==
    IF pop_turn(stack, p) THEN push_point(pop(stack), p)
    ELSE Append(stack, p)

\* the for loop over the points in the given order, from an empty Vec
RECURSIVE chain(_)
chain(s) ==
    IF s = <<>> THEN <<>>
    ELSE push_point(chain(pop(s)), s[Len(s)])

convex_hull_2d_no_pop(pts) ==
    IF Len(pts) < 3 THEN pts
    ELSE LET sorted == sort_by(pts)
             lower  == chain(sorted)
             upper  == chain(rev(sorted))
         IN  lower \o upper

convex_hull_2d_no_guard(pts) ==
    LET sorted == sort_by(pts)
        lower  == chain(sorted)
        upper  == chain(rev(sorted))
    IN  pop(lower) \o pop(upper)

convex_hull_2d(pts) ==
    IF Len(pts) < 3 THEN pts
    ELSE LET sorted == sort_by(pts)
             lower  == chain(sorted)
             upper  == chain(rev(sorted))
         IN  pop(lower) \o pop(upper)

\* ---- bounding_box_2d ----------------------------------------------------

\* T::max_value() / T::min_value(): the largest / most negative finite value
MAX_VALUE == 2147483647
MIN_VALUE == -2147483647

\* the for loop: state is <<min_x, min_y, max_x, max_y>>
RECURSIVE bbox_scan(_, _)
bbox_scan(acc, s) ==
    IF s = <<>> THEN acc
    ELSE LET point == s[1]
             min_x == IF point.x < acc[1] THEN point.x ELSE acc[1]
             min_y == IF point.y < acc[2] THEN point.y ELSE acc[2]
             max_x == IF point.x > acc[3] THEN point.x ELSE acc[3]
             max_y == IF point.y > acc[4] THEN point.y ELSE acc[4]
         IN  bbox_scan(<<min_x, min_y, max_x, max_y>>, Tail(s))

bounding_box_2d_zero_init(pts) ==
    IF pts = <<>> THEN None
    ELSE LET r == bbox_scan(<<MAX_VALUE, MAX_VALUE, 0, 0>>, pts)
         IN  Some(<<Point2D(r[1], r[2]), Point2D(r[3], r[4])>>)

bounding_box_2d(pts) ==
    IF pts = <<>> THEN None
    ELSE LET r == bbox_scan(<<MAX_VALUE, MAX_VALUE, MIN_VALUE, MIN_VALUE>>, pts)
         IN  Some(<<Point2D(r[1], r[2]), Point2D(r[3], r[4])>>)

\* ---- T = f32 ---------------------------------------------------------------
\* A finite value is m * 2^e with m odd (or m = 0, e = 0), |m| < 2^24, so that
\* equal values are equal records.  Exponent range is not modelled: every
\* value of the model is far from overflow and from the subnormals.

\* f32::MANTISSA_DIGITS
MANTISSA_DIGITS == 24

NaN == [k |-> "nan", m |-> 0, e |-> 0]
Inf(sign) == [k |-> "inf", m |-> sign, e |-> 0]

RECURSIVE Canon(_, _)
Canon(m, e) ==
    IF m = 0 THEN [k |-> "num", m |-> 0, e |-> 0]
    ELSE IF m % 2 = 0 THEN Canon(m \div 2, e + 1)
    ELSE [k |-> "num", m |-> m, e |-> e]

Abs(i) == IF i < 0 THEN -i ELSE i
Sign(i) == IF i < 0 THEN -1 ELSE 1
Min(a, b) == IF a < b THEN a ELSE b

RECURSIVE BitLen(_)
BitLen(n) == IF n = 0 THEN 0 ELSE 1 + BitLen(n \div 2)

\* the f32 nearest to the exact value M * 2^E (M >= 0), ties to even
RoundNat(M, E) ==
    IF BitLen(M) <= MANTISSA_DIGITS THEN Canon(M, E)
    ELSE LET s    == BitLen(M) - MANTISSA_DIGITS
             q    == M \div (2 ^ s)
             r    == M % (2 ^ s)
             half == 2 ^ (s - 1)
             up   == r > half \/ (r = half /\ q % 2 = 1)
         IN  Canon(IF up THEN q + 1 ELSE q, E + s)

FNeg(a) == [a EXCEPT !.m = -a.m]

FRound(M, E) == IF M < 0 THEN FNeg(RoundNat(-M, E)) ELSE RoundNat(M, E)

\* T::from(n) for a usize n < 2^24
FromInt(n) == Canon(n, 0)

FZero == FromInt(0)

\* a + b
FAdd(a, b) ==
    IF a.k = "nan" \/ b.k = "nan" THEN NaN
    ELSE IF a.k = "inf" /\ b.k = "inf" THEN (IF a.m = b.m THEN a ELSE NaN)
    ELSE IF a.k = "inf" THEN a
    ELSE IF b.k = "inf" THEN b
    ELSE IF a.m = 0 THEN b
    ELSE IF b.m = 0 THEN a
    ELSE LET emin == Min(a.e, b.e)
         IN  FRound(a.m * 2 ^ (a.e - emin) + b.m * 2 ^ (b.e - emin), emin)

\* a - b
FSub(a, b) == FAdd(a, FNeg(b))

\* a * b
FMul(a, b) ==
    IF a.k = "nan" \/ b.k = "nan" THEN NaN
    ELSE IF a.k = "inf" \/ b.k = "inf"
         THEN (IF a.m = 0 \/ b.m = 0 THEN NaN ELSE Inf(Sign(a.m) * Sign(b.m)))
    ELSE FRound(a.m * b.m, a.e + b.e)

\* smallest k with A * 2^k >= bound
RECURSIVE ShiftTo(_, _, _)
ShiftTo(A, bound, k) == IF A * 2 ^ k >= bound THEN k ELSE ShiftTo(A, bound, k + 1)

\* a / b: 0/0 is NaN, x/0 is an infinity, otherwise the correctly rounded quotient
FDiv(a, b) ==
    IF a.k = "nan" \/ b.k = "nan" THEN NaN
    ELSE IF a.k = "inf" THEN (IF b.k = "inf" THEN NaN ELSE Inf(Sign(a.m) * Sign(b.m)))
    ELSE IF b.k = "inf" THEN FZero
    ELSE IF b.m = 0 THEN (IF a.m = 0 THEN NaN ELSE Inf(Sign(a.m)))
    ELSE IF a.m = 0 THEN FZero
    ELSE LET A  == Abs(a.m)
             B  == Abs(b.m)
             k  == ShiftTo(A, (2 ^ MANTISSA_DIGITS) * B, 0)
             q  == (A * 2 ^ k) \div B
             r  == (A * 2 ^ k) % B
             E  == a.e - b.e - k
             v  == IF r = 0 THEN RoundNat(q, E)
                   ELSE Canon((q \div 2) + (q % 2), E + 1)
         IN  IF Sign(a.m) * Sign(b.m) < 0 THEN FNeg(v) ELSE v

\* a == b on T: NaN is equal to nothing
FEq(a, b) == a.k # "nan" /\ b.k # "nan" /\ a = b

\* coordinate-wise equality of points and of lines (PartialEq)
PointEq(a, b) == FEq(a.x, b.x) /\ FEq(a.y, b.y)
LineEq(a, b) == PointEq(a.p1, b.p1) /\ PointEq(a.p2, b.p2)

\* Point2D::origin()
origin == Point2D(FZero, FZero)

\* impl Add for Point2D
add(self, other) == Point2D(FAdd(self.x, other.x), FAdd(self.y, other.y))

\* impl Div<T> for Point2D
div(self, scalar) == Point2D(FDiv(self.x, scalar), FDiv(self.y, scalar))

\* the argument values: -1, 0, 1, 0.1f32, 0.11f32
FScalars == {Canon(-1, 0), FZero, Canon(1, 0), Canon(13421773, -27), Canon(7381975, -26)}

FPoints == {Point2D(x, y) : x \in FScalars, y \in FScalars}

\* ---- centroid_2d ----------------------------------------------------------

MaxCentroidPts == 3

\* points.iter().cloned().fold(acc, |acc, p| acc + p)
RECURSIVE fold_add(_, _)
fold_add(acc, s) ==
    IF s = <<>> THEN acc
    ELSE fold_add(add(acc, s[1]), Tail(s))

centroid_2d_skip_first(pts) ==
    LET n   == Len(pts)
        sum == fold_add(origin, IF pts = <<>> THEN pts ELSE Tail(pts))
    IN  div(sum, FromInt(n))

centroid_2d(pts) ==
    LET n   == Len(pts)
        sum == fold_add(origin, pts)
    IN  div(sum, FromInt(n))

\* ---- Line2D::subdivide ----------------------------------------------------

MaxSegments == 3

\* Line2D { p1, p2 }
Line2D(p1, p2) == [p1 |-> p1, p2 |-> p2]

\* the body of the for loop for index i (0-based)
segment(self, dx, dy, i) ==
    LET start == Point2D(FAdd(self.p1.x, FMul(FromInt(i), dx)),
                         FAdd(self.p1.y, FMul(FromInt(i), dy)))
        end   == Point2D(FAdd(self.p1.x, FMul(FromInt(i + 1), dx)),
                         FAdd(self.p1.y, FMul(FromInt(i + 1), dy)))
    IN  Line2D(start, end)

subdivide(self, n) ==
    IF n = 0 THEN <<>>
    ELSE LET dx == FDiv(FSub(self.p2.x, self.p1.x), FromInt(n))
             dy == FDiv(FSub(self.p2.y, self.p1.y), FromInt(n))
         IN  [j \in 1..n |-> segment(self, dx, dy, j - 1)]

\* ---- intersection_point ---------------------------------------------------

MaxLineCoord == 2

\* the literal 1e-6 as an f32
EPSILON == Canon(8796093, -43)

\* |a|
FAbs(a) == [a EXCEPT !.m = Abs(a.m)]

\* position of the leading bit of a finite non-zero value
TopBit(a) == a.e + BitLen(Abs(a.m))

\* a < b for finite values a, b >= 0
LtNonNeg(a, b) ==
    IF b.m = 0 THEN FALSE
    ELSE IF a.m = 0 THEN TRUE
    ELSE IF TopBit(a) # TopBit(b) THEN TopBit(a) < TopBit(b)
    ELSE LET emin == Min(a.e, b.e)
         IN  a.m * 2 ^ (a.e - emin) < b.m * 2 ^ (b.e - emin)

\* a < b on T: false when either side is NaN
FLt(a, b) ==
    IF a.k = "nan" \/ b.k = "nan" THEN FALSE
    ELSE IF a.k = "inf" THEN a.m < 0 /\ a # b
    ELSE IF b.k = "inf" THEN b.m > 0
    ELSE IF a.m < 0 /\ b.m >= 0 THEN TRUE
    ELSE IF a.m >= 0 /\ b.m < 0 THEN FALSE
    ELSE IF a.m < 0 THEN LtNonNeg(FAbs(b), FAbs(a))
    ELSE LtNonNeg(a, b)

\* let denom = (x1 - x2) * (y3 - y4) - (y1 - y2) * (x3 - x4)
denom_of(a, b) ==
    FSub(FMul(FSub(a.p1.x, a.p2.x), FSub(b.p1.y, b.p2.y)),
         FMul(FSub(a.p1.y, a.p2.y), FSub(b.p1.x, b.p2.x)))

\* the test of the if-let block: value.abs() < epsilon
within_epsilon(v) == FLt(FAbs(v), EPSILON)

intersection_point_swapped(a, b) ==
    LET x1 == a.p1.x  y1 == a.p1.y
        x2 == a.p2.x  y2 == a.p2.y
        x3 == b.p1.x  y3 == b.p1.y
        x4 == b.p2.x  y4 == b.p2.y
        denom == denom_of(a, b)
        det1  == FSub(FMul(x1, y2), FMul(y1, x2))
        det2  == FSub(FMul(x3, y4), FMul(y3, x4))
        intersect_x == FDiv(FSub(FMul(det1, FSub(x1, x2)), FMul(det2, FSub(x3, x4))), denom)
        intersect_y == FDiv(FSub(FMul(det1, FSub(y1, y2)), FMul(det2, FSub(y3, y4))), denom)
    IN  Some(Point2D(intersect_x, intersect_y))

\* The value of the if-let block is not returned and the body has no
\* `return None`: control always reaches the two divisions and Some(..).
intersection_point(a, b) ==
    LET x1 == a.p1.x  y1 == a.p1.y
        x2 == a.p2.x  y2 == a.p2.y
        x3 == b.p1.x  y3 == b.p1.y
        x4 == b.p2.x  y4 == b.p2.y
        denom == denom_of(a, b)
        det1  == FSub(FMul(x1, y2), FMul(y1, x2))
        det2  == FSub(FMul(x3, y4), FMul(y3, x4))
        intersect_x == FDiv(FSub(FMul(det1, FSub(x3, x4)), FMul(det2, FSub(x1, x2))), denom)
        intersect_y == FDiv(FSub(FMul(det1, FSub(y3, y4)), FMul(det2, FSub(y1, y2))), denom)
    IN  Some(Point2D(intersect_x, intersect_y))

\* ---- the callers -----------------------------------------------------------

NoPoint == Point2D(FZero, FZero)
NoLine == Line2D(NoPoint, NoPoint)

\* the caller holds a point slice and has called nothing yet
Init ==
    /\ op = "start"
    /\ points \in PointSeqs
    /\ hull = <<>>
    /\ bbox = None
    /\ centroid = NoPoint
    /\ line = NoLine
    /\ num_segments = 0
    /\ subdivisions = <<>>
    /\ l1 = NoLine
    /\ l2 = NoLine
    /\ intersection = None

\* hull = convex_hull_2d(&points)
CallConvexHull ==
    /\ op = "start"
    /\ op' = "convex_hull_2d"
    /\ hull' = convex_hull_2d(points)
    /\ UNCHANGED <<points, bbox, centroid, line, num_segments, subdivisions, l1, l2, intersection>>

\* the returned hull is passed to convex_hull_2d again
CallConvexHullAgain ==
    /\ op = "convex_hull_2d"
    /\ op' = "convex_hull_2d_again"
    /\ points' = hull
    /\ hull' = convex_hull_2d(hull)
    /\ UNCHANGED <<bbox, centroid, line, num_segments, subdivisions, l1, l2, intersection>>

\* bbox = bounding_box_2d(&points)
CallBoundingBox ==
    /\ op = "start"
    /\ op' = "bounding_box_2d"
    /\ bbox' = bounding_box_2d(points)
    /\ UNCHANGED <<points, hull, centroid, line, num_segments, subdivisions, l1, l2, intersection>>

Next ==
    \/ CallConvexHull
    \/ CallConvexHullAgain
    \/ CallBoundingBox

Spec == Init /\ [][Next]_vars

\* the caller holds a slice of f32 points
InitCentroid ==
    /\ op = "start"
    /\ points \in SeqsUpTo(FPoints, MaxCentroidPts)
    /\ hull = <<>>
    /\ bbox = None
    /\ centroid = NoPoint
    /\ line = NoLine
    /\ num_segments = 0
    /\ subdivisions = <<>>
    /\ l1 = NoLine
    /\ l2 = NoLine
    /\ intersection = None

\* centroid = centroid_2d(&points)
CallCentroid ==
    /\ op = "start"
    /\ op' = "centroid_2d"
    /\ centroid' = centroid_2d(points)
    /\ UNCHANGED <<points, hull, bbox, line, num_segments, subdivisions, l1, l2, intersection>>

NextCentroid == CallCentroid

SpecCentroid == InitCentroid /\ [][NextCentroid]_vars

\* the caller holds an f32 line and a segment count
InitSubdivide ==
    /\ op = "start"
    /\ points = <<>>
    /\ hull = <<>>
    /\ bbox = None
    /\ centroid = NoPoint
    /\ line \in {Line2D(a, b) : a \in FPoints, b \in FPoints}
    /\ num_segments \in 0..MaxSegments
    /\ subdivisions = <<>>
    /\ l1 = NoLine
    /\ l2 = NoLine
    /\ intersection = None

\* subdivisions = line.subdivide(num_segments)
CallSubdivide ==
    /\ op = "start"
    /\ op' = "subdivide"
    /\ subdivisions' = subdivide(line, num_segments)
    /\ UNCHANGED <<points, hull, bbox, centroid, line, num_segments, l1, l2, intersection>>

NextSubdivide == CallSubdivide

SpecSubdivide == InitSubdivide /\ [][NextSubdivide]_vars

\* the caller holds two f32 lines with small integer coordinates
LineCoords == {FromInt(c) : c \in 0..MaxLineCoord}
LinePoints == {Point2D(x, y) : x \in LineCoords, y \in LineCoords}
Lines == {Line2D(a, b) : a \in LinePoints, b \in LinePoints}

InitIntersection ==
    /\ op = "start"
    /\ points = <<>>
    /\ hull = <<>>
    /\ bbox = None
    /\ centroid = NoPoint
    /\ line = NoLine
    /\ num_segments = 0
    /\ subdivisions = <<>>
    /\ l1 \in Lines
    /\ l2 \in Lines
    /\ intersection = None

\* intersection = intersection_point(&l1, &l2)
CallIntersectionPoint ==
    /\ op = "start"
    /\ op' = "intersection_point"
    /\ intersection' = intersection_point(l1, l2)
    /\ UNCHANGED <<points, hull, bbox, centroid, line, num_segments, subdivisions, l1, l2>>

NextIntersection == CallIntersectionPoint

SpecIntersection == InitIntersection /\ [][NextIntersection]_vars

\* ---- properties of convex_hull_2d -----------------------------------------

Range(s) == {s[i] : i \in 1..Len(s)}

\* a call record: points is the argument and hull the value returned
HullReturned == op \in {"convex_hull_2d", "convex_hull_2d_again"}

AllCollinear(s) ==
    \A i, j, k \in 1..Len(s) : cross_product(s[i], s[j], s[k]) = 0

\* index after i, cyclically
succ(h, i) == (i % Len(h)) + 1

IsRotation(a, b) ==
    /\ Len(a) = Len(b)
    /\ \/ a = <<>>
       \/ \E k \in 0..(Len(a) - 1) :
             \A i \in 1..Len(a) : a[i] = b[((i - 1 + k) % Len(b)) + 1]

LexMin(s) == CHOOSE p \in Range(s) : \A q \in Range(s) : compare(p, q) # "Greater"
LexMax(s) == CHOOSE p \in Range(s) : \A q \in Range(s) : compare(p, q) # "Less"

\* C1: for an input of 3 or more points (duplicates included) the returned
\* hull contains no two equal points.
C1_NoRepeatedVertex ==
    (HullReturned /\ Len(points) >= 3) =>
        \A i, j \in 1..Len(hull) : i # j => hull[i] # hull[j]

\* C2: for an input of 3 or more points that are not all collinear, every
\* cyclically consecutive triple of hull vertices makes a strict left turn.
C2_StrictlyConvexCCW ==
    (HullReturned /\ Len(points) >= 3 /\ ~AllCollinear(points)) =>
        /\ Len(hull) >= 3
        /\ \A i \in 1..Len(hull) :
              cross_product(hull[i], hull[succ(hull, i)], hull[succ(hull, succ(hull, i))]) > 0

\* a point of the input was dropped because it lies on an edge of the hull
C2_Witness ==
    /\ op = "convex_hull_2d"
    /\ ~AllCollinear(points)
    /\ Len(hull) >= 3
    /\ \E p \in Range(points) \ Range(hull) :
          \E i \in 1..Len(hull) : cross_product(hull[i], hull[succ(hull, i)], p) = 0

\* C3: for an input of 3 or more points every hull vertex is an input point
\* and no input point is strictly right of a directed hull edge.
C3_EnclosesInput ==
    (HullReturned /\ Len(points) >= 3) =>
        /\ Range(hull) \subseteq Range(points)
        /\ \A p \in Range(points) : \A i \in 1..Len(hull) :
              cross_product(hull[i], hull[succ(hull, i)], p) >= 0

\* a point of the input is strictly inside the returned polygon
C3_Witness ==
    /\ op = "convex_hull_2d"
    /\ Len(hull) >= 3
    /\ \E p \in Range(points) : \A i \in 1..Len(hull) :
          cross_product(hull[i], hull[succ(hull, i)], p) > 0

\* C4: the hull of a returned hull has the same vertex set and is the same
\* cyclic sequence up to rotation.
C4_Idempotent ==
    op = "convex_hull_2d_again" =>
        /\ Range(hull) = Range(points)
        /\ IsRotation(hull, points)

C4_Witness ==
    /\ op = "convex_hull_2d_again"
    /\ Len(points) >= 4
    /\ Len(hull) >= 4

C6_SmallInputUnchanged ==
    (HullReturned /\ Len(points) < 3) => hull = points

\* two points given in descending order come back in descending order
C6_Witness ==
    /\ op = "convex_hull_2d"
    /\ Len(points) = 2
    /\ compare(points[1], points[2]) = "Greater"
    /\ hull = points

\* ---- properties of bounding_box_2d ----------------------------------------

\* C7: bounding_box_2d is None exactly for the empty input; otherwise the
\* corners bound every input point and each corner coordinate is attained.
C7_BoundingBox ==
    op = "bounding_box_2d" =>
        /\ (bbox = None) <=> (points = <<>>)
        /\ points # <<>> =>
              /\ bbox.some
              /\ \A p \in Range(points) :
                    /\ bbox.value[1].x <= p.x /\ p.x <= bbox.value[2].x
                    /\ bbox.value[1].y <= p.y /\ p.y <= bbox.value[2].y
              /\ \E p \in Range(points) : p.x = bbox.value[1].x
              /\ \E p \in Range(points) : p.y = bbox.value[1].y
              /\ \E p \in Range(points) : p.x = bbox.value[2].x
              /\ \E p \in Range(points) : p.y = bbox.value[2].y

\* a single point with negative coordinates: min corner = max corner
C7_Witness ==
    /\ op = "bounding_box_2d"
    /\ Len(points) = 1
    /\ points[1].x < 0 /\ points[1].y < 0
    /\ bbox = Some(<<points[1], points[1]>>)

\* ---- properties of centroid_2d --------------------------------------------

AllSame(s) == \A i \in 1..Len(s) : s[i] = s[1]

\* the reference values used below
F011 == Canon(7381975, -26)
F01 == Canon(13421773, -27)

\* f32 arithmetic of the model against values computed on hardware:
\* 0.11+0.11+0.11 = 5536481 * 2^-24, that sum / 3 = 14763949 * 2^-27,
\* 0.1 - 1 = -7549747 * 2^-23, 1 + (0.1 - 1) = 838861 * 2^-23
F32Reference ==
    /\ FAdd(FAdd(F011, F011), F011) = Canon(5536481, -24)
    /\ FDiv(Canon(5536481, -24), FromInt(3)) = Canon(14763949, -27)
    /\ FSub(F01, FromInt(1)) = Canon(-7549747, -23)
    /\ FAdd(FromInt(1), Canon(-7549747, -23)) = Canon(838861, -23)

IsNaN(a) == a.k = "nan"

\* C8: centroid_2d of the empty slice signals an 'empty input' error: it
\* divides nothing by the zero count and returns no point with NaN
\* coordinates.
C8_EmptyInputIsError ==
    (op = "centroid_2d" /\ points = <<>>) =>
        /\ ~IsNaN(centroid.x)
        /\ ~IsNaN(centroid.y)

\* C9 as stated: centroid_2d of N >= 1 copies of p equals p.
C9_IdenticalPointsExact ==
    (op = "centroid_2d" /\ Len(points) >= 1 /\ AllSame(points)) =>
        PointEq(centroid, points[1])

\* the running sum of N copies of the coordinate c was computed without rounding
ExactMultiple(sum, c, N) ==
    /\ sum.k = "num"
    /\ BitLen(Abs(Canon(N * c.m, c.e).m)) <= MANTISSA_DIGITS
    /\ sum = Canon(N * c.m, c.e)

SumOf(s) == fold_add(origin, s)

\* C9 (amended): centroid_2d of N >= 1 copies of p equals p whenever the
\* running sums of both coordinates are exact in T (N * p.x and N * p.y are
\* reached without rounding).
C9_IdenticalPointsWhenSumExact ==
    (/\ op = "centroid_2d"
     /\ Len(points) >= 1
     /\ AllSame(points)
     /\ ExactMultiple(SumOf(points).x, points[1].x, Len(points))
     /\ ExactMultiple(SumOf(points).y, points[1].y, Len(points))) =>
        PointEq(centroid, points[1])

\* three copies of (1, -1): the sum (3, -3) is exact and is divided by 3
C9_Witness ==
    /\ op = "centroid_2d"
    /\ Len(points) = 3
    /\ AllSame(points)
    /\ points[1] = Point2D(FromInt(1), Canon(-1, 0))
    /\ SumOf(points) = Point2D(FromInt(3), Canon(-3, 0))
    /\ PointEq(centroid, points[1])

\* ---- properties of Line2D::subdivide --------------------------------------

\* C10: subdivide(n) returns exactly n segments (none for 0, the line itself
\* for 1); the first starts at p1, the last ends at p2, and every segment
\* ends where the next one starts, all exactly.
C10_SubdivideExact ==
    op = "subdivide" =>
        /\ Len(subdivisions) = num_segments
        /\ num_segments = 1 => LineEq(subdivisions[1], line)
        /\ num_segments >= 1 =>
              /\ PointEq(subdivisions[1].p1, line.p1)
              /\ PointEq(subdivisions[num_segments].p2, line.p2)
              /\ \A i \in 1..(num_segments - 1) :
                    PointEq(subdivisions[i].p2, subdivisions[i + 1].p1)

\* ---- properties of intersection_point --------------------------------------

\* C11: whenever the determinant of the two lines is zero within epsilon
\* (parallel, coincident or zero-length lines) intersection_point returns
\* None, without dividing by the determinant; a point is returned only for
\* a non-zero determinant.
C11_ZeroDeterminantIsNone ==
    (op = "intersection_point" /\ within_epsilon(denom_of(l1, l2))) =>
        intersection = None

\* the integer an integer-valued finite f32 stands for
IntOf(a) == a.m * 2 ^ a.e

\* q lies on the infinite line through the integer points of ln, in exact
\* arithmetic: (p2 - p1) x (q - p1) = 0, scaled by 2^-emin
OnLine(q, ln) ==
    /\ q.x.k = "num" /\ q.y.k = "num"
    /\ LET emin == Min(Min(q.x.e, q.y.e), 0)
           qx == q.x.m * 2 ^ (q.x.e - emin)
           qy == q.y.m * 2 ^ (q.y.e - emin)
           ax == IntOf(ln.p1.x) * 2 ^ (0 - emin)
           ay == IntOf(ln.p1.y) * 2 ^ (0 - emin)
           dx == IntOf(ln.p2.x) - IntOf(ln.p1.x)
           dy == IntOf(ln.p2.y) - IntOf(ln.p1.y)
       IN  dx * (qy - ay) - dy * (qx - ax) = 0

NonParallel(a, b) == ~within_epsilon(denom_of(a, b))

num_x(a, b) ==
    FSub(FMul(FSub(FMul(a.p1.x, a.p2.y), FMul(a.p1.y, a.p2.x)), FSub(b.p1.x, b.p2.x)),
         FMul(FSub(FMul(b.p1.x, b.p2.y), FMul(b.p1.y, b.p2.x)), FSub(a.p1.x, a.p2.x)))
num_y(a, b) ==
    FSub(FMul(FSub(FMul(a.p1.x, a.p2.y), FMul(a.p1.y, a.p2.x)), FSub(b.p1.y, b.p2.y)),
         FMul(FSub(FMul(b.p1.x, b.p2.y), FMul(b.p1.y, b.p2.x)), FSub(a.p1.y, a.p2.y)))

\* q is exactly n / d (n, d integer-valued, d # 0).  q.m is odd, so q * d = n
\* forces 2^-q.e to divide d, hence -q.e < BitLen(|d|).
ExactQuotient(n, d, q) ==
    /\ q.k = "num"
    /\ IF q.e >= 0 THEN IntOf(q) * IntOf(d) = IntOf(n)
       ELSE /\ 0 - q.e <= BitLen(Abs(IntOf(d)))
            /\ q.m * IntOf(d) = IntOf(n) * 2 ^ (0 - q.e)

QuotientsExact ==
    /\ intersection.some
    /\ ExactQuotient(num_x(l1, l2), denom_of(l1, l2), intersection.value.x)
    /\ ExactQuotient(num_y(l1, l2), denom_of(l1, l2), intersection.value.y)

IndexPerms ==
    [n \in 0..MaxPts |->
        {f \in [1..n -> 1..n] : \A i, j \in 1..n : i # j => f[i] # f[j]}]

\* the reorderings of the sequence s
Reorderings(s) == {[i \in 1..Len(s) |-> s[f[i]]] : f \in IndexPerms[Len(s)]}

\* s lists its points in non-decreasing (x, then y) order
NonDecreasing(s) ==
    \A i \in 1..(Len(s) - 1) :
        \/ s[i].x < s[i + 1].x
        \/ (s[i].x = s[i + 1].x /\ s[i].y <= s[i + 1].y)

\* C13: for an input of 3 or more points every reordering of the input
\* returns the identical hull, and the hull starts at the lexicographically
\* smallest input point.  Every input is a reordering of its non-decreasing
\* arrangement, so the reorderings are enumerated from that arrangement:
\* two permutations of one multiset both return its hull.
C13_OrderIndependent ==
    (op = "convex_hull_2d" /\ Len(points) >= 3) =>
        /\ hull[1] = LexMin(points)
        /\ NonDecreasing(points) =>
              \A q \in Reorderings(points) : convex_hull_2d(q) = hull

\* four distinct points, one of them dropped from the hull, and a reordering
\* that puts the smallest point last returns the same hull
C13_Witness ==
    /\ op = "convex_hull_2d"
    /\ Len(points) = 4
    /\ Cardinality(Range(points)) = 4
    /\ NonDecreasing(points)
    /\ Len(hull) = 3
    /\ \E q \in Reorderings(points) :
          /\ q[4] = points[1]
          /\ q # points
          /\ convex_hull_2d(q) = hull
          /\ hull[1] = q[4]

====
